---- MODULE Spec2Model ----
(***************************************************************************)
(* rawhdd: raw imaging of a hard disk through the BIOS (src/rawhdd.c).     *)
(*                                                                         *)
(* The model follows main() statement by statement: hddinfo(), the         *)
(* command-line overrides, the geometry check, the opening of the          *)
(* destination file and of the log, the copy loop with copy_track() and    *)
(* copy_sects(), the two exits of main() and the Ctrl-Break handler        *)
(* c_break().  The BIOS (int 13h), DOS file I/O and the keyboard are the   *)
(* environment: every call into them has a nondeterministic outcome.       *)
(*                                                                         *)
(* unsigned int is 16 bits wide: the program is written for a 16-bit DOS   *)
(* compiler (far pointers, getvect, int86, biosdisk, ctrlbrk) and struct   *)
(* hddparam overlays the BIOS fixed disk parameter table, whose first      *)
(* field is a 16-bit word.                                                 *)
(***************************************************************************)
EXTENDS Integers, Sequences, FiniteSets, TLC

(***************************************************************************)
(* Bounds of the model.                                                    *)
(***************************************************************************)
\* largest cylinder count in the BIOS table
MaxCyls == 2
\* largest sector count reported by int 13h,8 (low six bits of CL)
MaxSect == 2
\* largest number of tracks of one session whose bulk read fails
MaxFallbacks == 1
\* largest CH byte returned by int 13h,8 in the reconciliation specification
MaxCH == 3

(***************************************************************************)
(* Program constants.                                                      *)
(***************************************************************************)
\* bytes per sector (src/rawhdd.c:287, 179)
SectorBytes == 512
\* retries after a failed single-sector read (src/rawhdd.c:151)
MaxRetries == 10
\* range of unsigned int: 2^16
W16 == 65536
\* the key getch() must return to go on (src/rawhdd.c:303)
EnterKey == 13

(***************************************************************************)
(* Arithmetic of the C types.                                              *)
(***************************************************************************)
\* conversion to unsigned int
ToUnsigned(n) == n % W16

\* conversion of a 16-bit pattern to int
ToInt(n) == IF (n % W16) >= (W16 \div 2) THEN (n % W16) - W16 ELSE n % W16

RECURSIVE BitAnd(_, _)
BitAnd(a, b) ==
    IF a = 0 \/ b = 0 THEN 0
    ELSE (IF a % 2 = 1 /\ b % 2 = 1 THEN 1 ELSE 0) + 2 * BitAnd(a \div 2, b \div 2)

RECURSIVE BitOr(_, _)
BitOr(a, b) ==
    IF a = 0 THEN b
    ELSE IF b = 0 THEN a
    ELSE (IF a % 2 = 1 \/ b % 2 = 1 THEN 1 ELSE 0) + 2 * BitOr(a \div 2, b \div 2)

ShiftLeft2(a) == a * 4

(***************************************************************************)
(* State.                                                                  *)
(***************************************************************************)
VARIABLES
    hdp,        \* the BIOS table int 41h/46h points to: [cyls, heads]
    regs,       \* the registers int 13h,8 returns: [ah, cl, ch, dh]
    opts,       \* struct myopts after the option loop
    pc,         \* position in main() and its callees
    sectors, tracks, heads, trackbytes,     \* the globals
    rhi,        \* main: result of hddinfo()
    track, head,    \* main: loop counters
    i, retr, res,   \* copy_sects: sector index, retries left; last result
    dfh,        \* destination file handle (0 before open())
    dfhOpen,    \* whether DOS holds the destination file open
    lf,         \* log FILE*: "NULL", "open" or "closed"
    handler,    \* whether ctrlbrk(c_break) has been called
    outBytes,   \* size of the destination file
    log,        \* lines of rawhdd.log
    result,     \* how the program ended
    exitCode,   \* argument of exit() or value returned by main (-1: none)
    ops,        \* BIOS calls made so far for the sector or track being read
    wfailed,    \* a write() to the destination has failed
    fallbacks,  \* tracks whose bulk read failed so far
    logStart,   \* length of rawhdd.log when the session started
    outOpened   \* open() with O_TRUNC has succeeded

vars == <<hdp, regs, opts, pc, sectors, tracks, heads, trackbytes, rhi,
          track, head, i, retr, res, dfh, dfhOpen, lf, handler, outBytes,
          log, result, exitCode, ops, wfailed, fallbacks, logStart, outOpened>>

geom == <<sectors, tracks, heads>>
loopv == <<track, head, i, retr, res>>
files == <<dfh, dfhOpen, lf, outBytes, log, outOpened>>
env == <<hdp, regs, opts, logStart>>
hist == <<ops, wfailed, fallbacks>>

(***************************************************************************)
(* Inputs.                                                                 *)
(***************************************************************************)
\* head counts of the BIOS table
HeadVals == {1, 2}

\* values given to -c=, -h= and -s=
OvVals == {0, 1}

\* one geometry switch: absent (memset leaves 0), or present with a value
Choice(V) == {[set |-> 0, val |-> 0]} \cup {[set |-> 1, val |-> v] : v \in V}

\* struct myopts after the option loop (src/rawhdd.c:235-255)
Options(V) ==
    {[tracks |-> c.val, ts |-> c.set, heads |-> h.val, hs |-> h.set,
      sectors |-> s.val, ss |-> s.set] :
        c \in Choice(V), h \in Choice(V), s \in Choice(V)}

\* int 13h,8 failed: AH holds an error code
FailedRegs == [ah |-> 1, cl |-> 0, ch |-> 0, dh |-> 0]

\* what int 13h,8 may return
RegVals(CLs, CHs, DHs) ==
    {FailedRegs} \cup {[ah |-> 0, cl |-> l, ch |-> c, dh |-> d] :
                          l \in CLs, c \in CHs, d \in DHs}

\* one line of rawhdd.log; s = 0 stands for the "*" of a whole track
Line(kind, c, h, s) == [kind |-> kind, c |-> c, h |-> h, s |-> s]
Banner(kind) == Line(kind, 0, 0, 0)

\* rawhdd.log as an earlier session left it
PriorLog ==
    <<Banner("STARTED"), Banner("DRIVE"), Line("OK", 0, 0, 0), Banner("FINISHED")>>

\* the state at the sanity check of main (src/rawhdd.c:65-72, 235-264)
InitOn(Cyls, Heads, Regs, Opts) ==
    /\ hdp \in {[cyls |-> c, heads |-> h] : c \in Cyls, h \in Heads}
    /\ regs \in Regs
    /\ opts \in Opts
    /\ pc = "hddinfo"
    /\ sectors = 0 /\ tracks = 0 /\ heads = 0 /\ trackbytes = 0
    /\ rhi = 0
    /\ track = 0 /\ head = 0 /\ i = 0 /\ retr = 0 /\ res = 0
    /\ dfh = 0 /\ dfhOpen = FALSE /\ lf = "NULL"
    /\ handler = FALSE
    /\ outBytes = 0
    /\ log = PriorLog
    /\ logStart = Len(log)
    /\ result = "running" /\ exitCode = -1
    /\ ops = << >> /\ wfailed = FALSE /\ fallbacks = 0
    /\ outOpened = FALSE

Init ==
    InitOn(1..MaxCyls, HeadVals, RegVals(0..MaxSect, {0}, {0, 1}), Options(OvVals))

\* the locals of main and copy_sects, and the record of the BIOS calls, keep
\* their values
Running == UNCHANGED <<track, head, i, retr, res, ops>>

\* exit(code) and return from main: the program and its locals are gone
Exit(code, how) ==
    /\ pc' = "done"
    /\ result' = how
    /\ exitCode' = code
    /\ track' = 0 /\ head' = 0 /\ i' = 0 /\ retr' = 0 /\ res' = 0
    /\ ops' = << >>

(***************************************************************************)
(* hddinfo (src/rawhdd.c:83-127)                                           *)
(***************************************************************************)
\* sectors=regs.h.cl&0x3f
Int13Sectors(r) == BitAnd(r.cl, 63)

\* tracks=1+((regs.h.cl&0xc0)<<2)|regs.h.ch : + binds tighter than |
Int13Tracks(r) == ToUnsigned(BitOr(1 + ShiftLeft2(BitAnd(r.cl, 192)), r.ch))

\* heads=1+regs.h.dh
Int13Heads(r) == 1 + r.dh

\* cdif=hdp->cyls-tracks, an unsigned difference stored in an int
Cdif(t, r) == ToInt(t.cyls - Int13Tracks(r))

\* the value hddinfo returns
HddInfoRv(t, r) ==
    IF r.ah # 0 THEN 1
    ELSE IF Cdif(t, r) > 1 \/ Int13Heads(r) # t.heads THEN 1 ELSE 0

\* tracks=hdp->cyls (src/rawhdd.c:119)
HddInfoTracks(t, r) == t.cyls

\* a reconciliation that keeps the head count of int 13h,8
HddInfoHeadsFromInt13(t, r) == Int13Heads(r)

\* heads=1+regs.h.dh, replaced by hdp->heads when they differ (src/rawhdd.c:112, 120-125)
HddInfoHeads(t, r) == IF Int13Heads(r) # t.heads THEN t.heads ELSE Int13Heads(r)

\* rhi=hddinfo(), and the test of rhi in main (src/rawhdd.c:268-272)
HddInfo ==
    /\ pc = "hddinfo"
    /\ rhi' = HddInfoRv(hdp, regs)
    /\ IF regs.ah # 0
       THEN UNCHANGED geom
       ELSE /\ sectors' = Int13Sectors(regs)
            /\ tracks' = HddInfoTracks(hdp, regs)
            /\ heads' = HddInfoHeads(hdp, regs)
    /\ IF rhi' < 0
       THEN Exit(1, "GeometryUnavailable")
       ELSE pc' = "overrides" /\ Running /\ UNCHANGED <<result, exitCode>>
    /\ UNCHANGED <<env, trackbytes, files, handler, wfailed, fallbacks>>

(***************************************************************************)
(* main, up to the copy loop (src/rawhdd.c:274-324)                        *)
(***************************************************************************)
\* a switch that counts only when its value is not zero
OverrideIfNonZero(flag, val, detected) ==
    IF val # 0 THEN ToUnsigned(val) ELSE detected

\* a geometry field after its switch was applied (src/rawhdd.c:274-279)
Override(flag, val, detected) == IF flag # 0 THEN ToUnsigned(val) ELSE detected

\* a check that forgets the sector count
NoGeometryButSectors(t, h, s) == t = 0 \/ h = 0

\* tracks==0 || heads==0 || sectors==0 (src/rawhdd.c:281)
NoGeometry(t, h, s) == t = 0 \/ h = 0 \/ s = 0

\* a track buffer sized in sectors instead of bytes
TrackBytesInSectors(s) == ToUnsigned(s)

\* trackbytes=512*sectors, in unsigned int (src/rawhdd.c:287)
TrackBytes(s) == ToUnsigned(SectorBytes * s)

\* the switches override the detected geometry; a zero field ends the program
ApplyOverrides ==
    /\ pc = "overrides"
    /\ sectors' = Override(opts.ss, opts.sectors, sectors)
    /\ heads' = Override(opts.hs, opts.heads, heads)
    /\ tracks' = Override(opts.ts, opts.tracks, tracks)
    /\ IF NoGeometry(tracks', heads', sectors')
       THEN Exit(1, "IncompleteGeometry") /\ UNCHANGED trackbytes
       ELSE /\ trackbytes' = TrackBytes(sectors')
            /\ pc' = "malloc"
            /\ Running
            /\ UNCHANGED <<result, exitCode>>
    /\ UNCHANGED <<env, rhi, files, handler, wfailed, fallbacks>>

\* buf=malloc(trackbytes) (src/rawhdd.c:288-293)
Malloc ==
    /\ pc = "malloc"
    /\ \/ pc' = "confirm" /\ Running /\ UNCHANGED <<result, exitCode>>
       \/ Exit(1, "MallocFailed")
    /\ UNCHANGED <<env, geom, trackbytes, rhi, files, handler, wfailed, fallbacks>>

\* "Press ENTER to continue or any other key to abort" (src/rawhdd.c:295-307)
Confirm ==
    /\ pc = "confirm"
    /\ \E key \in {EnterKey, 27} :
          IF key # EnterKey
          THEN Exit(2, "Declined")
          ELSE pc' = "open" /\ Running /\ UNCHANGED <<result, exitCode>>
    /\ UNCHANGED <<env, geom, trackbytes, rhi, files, handler, wfailed, fallbacks>>

\* dfh=open(fn,O_CREAT|O_BINARY|O_TRUNC|O_WRONLY,...) (src/rawhdd.c:309-314)
OpenDst ==
    /\ pc = "open"
    /\ \/ /\ dfh' = 5
          /\ dfhOpen' = TRUE
          /\ outBytes' = 0
          /\ outOpened' = TRUE
          /\ pc' = "openlog"
       \/ /\ dfh' = -1
          /\ pc' = "fail"
          /\ UNCHANGED <<dfhOpen, outBytes, outOpened>>
    /\ UNCHANGED <<env, geom, trackbytes, rhi, loopv, lf, log, handler,
                   result, exitCode, hist>>

\* a log opened with "wt": the earlier content is lost
OpenLogTruncating ==
    /\ pc = "openlog"
    /\ \/ /\ lf' = "open"
          /\ log' = <<Banner("STARTED"), Banner("DRIVE")>>
          /\ pc' = "ctrlbrk"
       \/ /\ pc' = "undefined"
          /\ UNCHANGED <<lf, log>>
    /\ UNCHANGED <<env, geom, trackbytes, rhi, loopv, dfh, dfhOpen, outBytes,
                   outOpened, handler, result, exitCode, hist>>

\* lf=fopen("rawhdd.log","at") and the two lines of the start banner
\* (src/rawhdd.c:317-321).  fopen's result is not tested: when it is NULL
\* the fprintf that follows has undefined behaviour.
OpenLog ==
    /\ pc = "openlog"
    /\ \/ /\ lf' = "open"
          /\ log' = log \o <<Banner("STARTED"), Banner("DRIVE")>>
          /\ pc' = "ctrlbrk"
       \/ /\ pc' = "undefined"
          /\ UNCHANGED <<lf, log>>
    /\ UNCHANGED <<env, geom, trackbytes, rhi, loopv, dfh, dfhOpen, outBytes,
                   outOpened, handler, result, exitCode, hist>>

\* ctrlbrk(c_break), and track=0 of the outer for (src/rawhdd.c:324, 327)
CtrlBrk ==
    /\ pc = "ctrlbrk"
    /\ handler' = TRUE
    /\ track' = 0
    /\ pc' = "for_track"
    /\ UNCHANGED <<env, geom, trackbytes, rhi, head, i, retr, res, files,
                   result, exitCode, hist>>

(***************************************************************************)
(* The copy loop of main (src/rawhdd.c:327-346)                            *)
(***************************************************************************)
\* what a write() of n bytes that fails may have added to the file
Partial(n) == {0} \cup {k \in {n - 1} : k > 0}

\* an outer loop that stops one cylinder early
ForTrackOneShort ==
    /\ pc = "for_track"
    /\ IF track + 1 < tracks
       THEN head' = 0 /\ pc' = "for_head"
       ELSE pc' = "finish" /\ UNCHANGED head
    /\ UNCHANGED <<env, geom, trackbytes, rhi, track, i, retr, res, files,
                   handler, result, exitCode, hist>>

\* for(track=0;track<tracks;track++)
ForTrack ==
    /\ pc = "for_track"
    /\ IF track < tracks
       THEN head' = 0 /\ pc' = "for_head"
       ELSE pc' = "finish" /\ UNCHANGED head
    /\ UNCHANGED <<env, geom, trackbytes, rhi, track, i, retr, res, files,
                   handler, result, exitCode, hist>>

\* for(head=0;head<heads;head++)
ForHead ==
    /\ pc = "for_head"
    /\ IF head < heads
       THEN /\ pc' = "copy_track"
            /\ ops' = << >>
            /\ UNCHANGED track
       ELSE /\ track' = track + 1
            /\ pc' = "for_track"
            /\ UNCHANGED ops
    /\ UNCHANGED <<env, geom, trackbytes, rhi, head, i, retr, res, files,
                   handler, result, exitCode, wfailed, fallbacks>>

\* copy_track: biosdisk(2,drive,head,track,1,sectors,buf) (src/rawhdd.c:132-133)
CopyTrackRead ==
    /\ pc = "copy_track"
    /\ \/ /\ ops' = Append(ops, "track_ok")
          /\ pc' = "track_write"
          /\ UNCHANGED <<res, fallbacks>>
       \/ /\ fallbacks < MaxFallbacks
          /\ ops' = Append(ops, "track_fail")
          /\ fallbacks' = fallbacks + 1
          /\ res' = 1
          /\ pc' = "after_track"
    /\ UNCHANGED <<env, geom, trackbytes, rhi, track, head, i, retr, files,
                   handler, result, exitCode, wfailed>>

\* copy_track: write(f,buf,trackbytes)!=trackbytes (src/rawhdd.c:134-137)
CopyTrackWrite ==
    /\ pc = "track_write"
    /\ \/ /\ outBytes' = outBytes + trackbytes
          /\ res' = 0
          /\ UNCHANGED wfailed
       \/ /\ \E k \in Partial(trackbytes) : outBytes' = outBytes + k
          /\ res' = -1
          /\ wfailed' = TRUE
    /\ pc' = "after_track"
    /\ UNCHANGED <<env, geom, trackbytes, rhi, track, head, i, retr, dfh,
                   dfhOpen, lf, log, outOpened, handler, result, exitCode,
                   ops, fallbacks>>

\* an inner loop that steps over every other head
NextHeadSkipsOne ==
    /\ head' = head + 2
    /\ pc' = "for_head"

\* the head++ that ends one pass of the inner for
NextHead ==
    /\ head' = head + 1
    /\ pc' = "for_head"

\* a copied track that is not logged
LogTrackOkSilent ==
    /\ pc = "after_track"
    /\ res = 0
    /\ NextHead
    /\ UNCHANGED <<env, geom, trackbytes, rhi, track, i, retr, res, files,
                   handler, result, exitCode, hist>>

\* res==0: fprintf(lf,"OK: %d,%d,*\n",track,head) (src/rawhdd.c:330-331)
LogTrackOk ==
    /\ pc = "after_track"
    /\ res = 0
    /\ log' = Append(log, Line("OK", track, head, 0))
    /\ NextHead
    /\ UNCHANGED <<env, geom, trackbytes, rhi, track, i, retr, res, dfh,
                   dfhOpen, lf, outBytes, outOpened, handler, result,
                   exitCode, hist>>

\* a failed bulk read that ends the session
EnterSectsGivesUp ==
    /\ pc = "after_track"
    /\ res > 0
    /\ pc' = "fail"
    /\ UNCHANGED <<env, geom, trackbytes, rhi, loopv, files, handler,
                   result, exitCode, hist>>

\* res>0: copy_sects is called; i=1 (src/rawhdd.c:332-334, 146)
EnterSects ==
    /\ pc = "after_track"
    /\ res > 0
    /\ i' = 1
    /\ pc' = "s_for"
    /\ UNCHANGED <<env, geom, trackbytes, rhi, track, head, retr, res, files,
                   handler, result, exitCode, hist>>

\* a failed bulk write that is only reported
TrackWriteFailedGoesOn ==
    /\ pc = "after_track"
    /\ res < 0
    /\ NextHead
    /\ UNCHANGED <<env, geom, trackbytes, rhi, track, i, retr, res, files,
                   handler, result, exitCode, hist>>

\* res<0: printf("write failed\n"); goto fail (src/rawhdd.c:341-345)
TrackWriteFailed ==
    /\ pc = "after_track"
    /\ res < 0
    /\ pc' = "fail"
    /\ UNCHANGED <<env, geom, trackbytes, rhi, loopv, files, handler,
                   result, exitCode, hist>>

(***************************************************************************)
(* copy_sects (src/rawhdd.c:141-183)                                       *)
(***************************************************************************)
\* for(i=1;i<=sectors;i++); past the last sector copy_sects returns 0
SectFor ==
    /\ pc = "s_for"
    /\ IF i <= sectors
       THEN /\ pc' = "s_read"
            /\ ops' = << >>
            /\ UNCHANGED <<res, head, i, retr>>
       ELSE /\ res' = 0
            /\ NextHead
            /\ i' = 0 /\ retr' = 0
            /\ UNCHANGED ops
    /\ UNCHANGED <<env, geom, trackbytes, rhi, track, files,
                   handler, result, exitCode, wfailed, fallbacks>>

\* biosdisk(2,drive,head,track,i,1,buf)!=0; on failure res=1;retr=10
\* (src/rawhdd.c:148-151)
SectRead ==
    /\ pc = "s_read"
    /\ \/ /\ ops' = Append(ops, "read_ok")
          /\ pc' = "s_log_first"
          /\ UNCHANGED <<res, retr>>
       \/ /\ ops' = Append(ops, "read_fail")
          /\ res' = 1
          /\ retr' = MaxRetries
          /\ pc' = "s_while"
    /\ UNCHANGED <<env, geom, trackbytes, rhi, track, head, i, files,
                   handler, result, exitCode, wfailed, fallbacks>>

\* a loop that gives up one retry early
RetryAgainOneShort(n, r) == n > 1 /\ r # 0

\* a loop that goes on after a read has succeeded
RetryAgainWhateverRead(n, r) == n > 0

\* while(retr>0 && res!=0) (src/rawhdd.c:152)
RetryAgain(n, r) == n > 0 /\ r # 0

SectWhile ==
    /\ pc = "s_while"
    /\ pc' = IF RetryAgain(retr, res) THEN "s_reset" ELSE "s_log_retry"
    /\ UNCHANGED <<env, geom, trackbytes, rhi, loopv, files, handler,
                   result, exitCode, hist>>

\* printf("*"); biosdisk(0,drive,0,0,0,1,NULL) (src/rawhdd.c:154-156)
SectReset ==
    /\ pc = "s_reset"
    /\ ops' = Append(ops, "reset")
    /\ pc' = "s_reread"
    /\ UNCHANGED <<env, geom, trackbytes, rhi, loopv, files, handler,
                   result, exitCode, wfailed, fallbacks>>

\* res=biosdisk(2,drive,head,track,i,1,buf); retr-- (src/rawhdd.c:157-158)
SectReread ==
    /\ pc = "s_reread"
    /\ \/ res' = 0 /\ ops' = Append(ops, "read_ok")
       \/ res' = 1 /\ ops' = Append(ops, "read_fail")
    /\ retr' = retr - 1
    /\ pc' = "s_while"
    /\ UNCHANGED <<env, geom, trackbytes, rhi, track, head, i, files,
                   handler, result, exitCode, wfailed, fallbacks>>

\* a retried sector always logged as read
RetryLineAlwaysOk(r, c, h, s) == Line("OK", c, h, s)

\* the line logged after the retries (src/rawhdd.c:162-171)
RetryLine(r, c, h, s) == Line(IF r # 0 THEN "ERR" ELSE "OK", c, h, s)

SectLogRetry ==
    /\ pc = "s_log_retry"
    /\ log' = Append(log, RetryLine(res, track, head, i))
    /\ pc' = "s_write"
    /\ UNCHANGED <<env, geom, trackbytes, rhi, loopv, dfh, dfhOpen, lf,
                   outBytes, outOpened, handler, result, exitCode, hist>>

\* sector was read without retries (src/rawhdd.c:173-177)
SectLogFirst ==
    /\ pc = "s_log_first"
    /\ log' = Append(log, Line("OK", track, head, i))
    /\ pc' = "s_write"
    /\ UNCHANGED <<env, geom, trackbytes, rhi, loopv, dfh, dfhOpen, lf,
                   outBytes, outOpened, handler, result, exitCode, hist>>

\* write(f,buf,512)!=512: return -1, else i++ (src/rawhdd.c:179-180, 146)
SectWrite ==
    /\ pc = "s_write"
    /\ \/ /\ outBytes' = outBytes + SectorBytes
          /\ i' = i + 1
          /\ pc' = "s_for"
          /\ UNCHANGED <<res, wfailed>>
       \/ /\ \E k \in Partial(SectorBytes) : outBytes' = outBytes + k
          /\ res' = -1
          /\ wfailed' = TRUE
          /\ pc' = "sects_failed"
          /\ UNCHANGED i
    /\ ops' = << >>
    /\ UNCHANGED <<env, geom, trackbytes, rhi, track, head, retr, dfh,
                   dfhOpen, lf, log, outOpened, handler, result, exitCode,
                   fallbacks>>

\* copy_sects returned <0: close(dfh); printf("write failed\n"); goto fail
\* (src/rawhdd.c:334-339)
SectsWriteFailed ==
    /\ pc = "sects_failed"
    /\ dfhOpen' = FALSE
    /\ pc' = "fail"
    /\ UNCHANGED <<env, geom, trackbytes, rhi, loopv, dfh, lf, outBytes, log,
                   outOpened, handler, result, exitCode, hist>>

(***************************************************************************)
(* The two ends of main (src/rawhdd.c:347-359)                             *)
(***************************************************************************)
\* printf("Done.\n"); close(dfh) (src/rawhdd.c:347-348)
Finish ==
    /\ pc = "finish"
    /\ dfhOpen' = FALSE
    /\ pc' = "finish_log"
    /\ UNCHANGED <<env, geom, trackbytes, rhi, loopv, dfh, lf, outBytes, log,
                   outOpened, handler, result, exitCode, hist>>

\* fprintf(lf,"%s copy finished at %s\n",...); fclose(lf) (src/rawhdd.c:349-352)
FinishLog ==
    /\ pc = "finish_log"
    /\ log' = Append(log, Banner("FINISHED"))
    /\ lf' = "closed"
    /\ pc' = "return"
    /\ UNCHANGED <<env, geom, trackbytes, rhi, loopv, dfh, dfhOpen, outBytes,
                   outOpened, handler, result, exitCode, hist>>

\* free(buf); return(0) (src/rawhdd.c:353-354)
Return ==
    /\ pc = "return"
    /\ Exit(0, "Completed")
    /\ UNCHANGED <<env, geom, trackbytes, rhi, files, handler, wfailed, fallbacks>>

\* a fail: label that forgets the log
FailLeavesLogOpen ==
    /\ pc = "fail"
    /\ dfhOpen' = IF dfh # 0 THEN FALSE ELSE dfhOpen
    /\ Exit(1, IF wfailed THEN "WriteFailed" ELSE "OpenFailed")
    /\ UNCHANGED <<env, geom, trackbytes, rhi, dfh, lf, outBytes, log,
                   outOpened, handler, wfailed, fallbacks>>

\* fail: free(buf); if(dfh) close(dfh); if(lf!=NULL) fclose(lf); return(1)
\* (src/rawhdd.c:355-359)
Fail ==
    /\ pc = "fail"
    /\ dfhOpen' = IF dfh # 0 THEN FALSE ELSE dfhOpen
    /\ lf' = IF lf # "NULL" THEN "closed" ELSE lf
    /\ Exit(1, IF wfailed THEN "WriteFailed" ELSE "OpenFailed")
    /\ UNCHANGED <<env, geom, trackbytes, rhi, dfh, outBytes, log,
                   outOpened, handler, wfailed, fallbacks>>

(***************************************************************************)
(* c_break (src/rawhdd.c:74-81)                                            *)
(***************************************************************************)
\* the program is ended by the run-time library, not by exit or return
Aborted ==
    /\ pc' = "done"
    /\ result' = "AbortedByUser"
    /\ track' = 0 /\ head' = 0 /\ i' = 0 /\ retr' = 0 /\ res' = 0
    /\ ops' = << >>
    /\ UNCHANGED exitCode

\* a handler that writes no marker
CBreakWithoutMarker ==
    /\ handler
    /\ pc \notin {"done", "undefined"}
    /\ dfhOpen' = FALSE
    /\ lf' = "closed"
    /\ Aborted
    /\ UNCHANGED <<env, geom, trackbytes, rhi, dfh, outBytes, log,
                   outOpened, handler, wfailed, fallbacks>>

\* Ctrl-Break while the handler is installed: close(dfh); the marker;
\* fclose(lf); return 0, which makes the run-time library end the program.
\* After main's own fclose(lf) the fprintf uses a closed stream, which is
\* undefined behaviour.
CBreak ==
    /\ handler
    /\ pc \notin {"done", "undefined"}
    /\ dfhOpen' = FALSE
    /\ IF lf = "open"
       THEN /\ log' = Append(log, Banner("ABORTED"))
            /\ lf' = "closed"
            /\ Aborted
       ELSE /\ pc' = "undefined"
            /\ Running
            /\ UNCHANGED <<log, lf, result, exitCode>>
    /\ UNCHANGED <<env, geom, trackbytes, rhi, dfh, outBytes,
                   outOpened, handler, wfailed, fallbacks>>

(***************************************************************************)
(* Specifications.                                                         *)
(***************************************************************************)
Startup == HddInfo \/ ApplyOverrides \/ Malloc \/ Confirm

Opening == OpenDst \/ OpenLog \/ CtrlBrk

Bulk ==
    \/ ForTrack \/ ForHead \/ CopyTrackRead \/ CopyTrackWrite
    \/ LogTrackOk \/ EnterSects \/ TrackWriteFailed

Fallback ==
    \/ SectFor \/ SectRead \/ SectWhile \/ SectReset \/ SectReread
    \/ SectLogRetry \/ SectLogFirst \/ SectWrite \/ SectsWriteFailed

Ending == Finish \/ FinishLog \/ Return \/ Fail

Next == Startup \/ Opening \/ Bulk \/ Fallback \/ Ending \/ CBreak

\* one run of the program
Spec == Init /\ [][Next]_vars

\* the statements of main and its callees, without the Ctrl-Break handler
Program == Startup \/ Opening \/ Bulk \/ Fallback \/ Ending

\* runs without geometry switches
InitFair ==
    InitOn(1..MaxCyls, HeadVals, RegVals(0..MaxSect, {0}, {0}), Options({}))

\* one run in which the program is not stopped for ever between two
\* statements: every BIOS and DOS call returns, a key is pressed at getch()
SpecFair == InitFair /\ [][Next]_vars /\ WF_vars(Program)

\* CL bytes with and without cylinder bit 8 (0x40)
GeomCLs == {l + 64 * k : l \in 0..MaxSect, k \in 0..1}

\* the geometry stage alone, over a wider range of BIOS readings
InitGeom ==
    InitOn(1..(MaxCyls + 2), HeadVals,
           RegVals(GeomCLs, 0..MaxCH, 0..2), Options(OvVals))

SpecGeom == InitGeom /\ [][Startup]_vars

\* the program is run a second time on the same machine with the same command
\* line and a fresh output path: the globals have their initialisers again
\* (src/rawhdd.c:65-72) and rawhdd.log is as the first run left it
Restart ==
    /\ pc = "done"
    /\ logStart = Len(PriorLog)
    /\ pc' = "hddinfo"
    /\ sectors' = 0 /\ tracks' = 0 /\ heads' = 0 /\ trackbytes' = 0
    /\ rhi' = 0
    /\ dfh' = 0 /\ dfhOpen' = FALSE /\ lf' = "NULL"
    /\ handler' = FALSE
    /\ outBytes' = 0 /\ outOpened' = FALSE
    /\ logStart' = Len(log)
    /\ result' = "running" /\ exitCode' = -1
    /\ wfailed' = FALSE /\ fallbacks' = 0
    /\ UNCHANGED <<hdp, regs, opts, log, loopv, ops>>

\* a disk of one cylinder with one or two sectors per track, no switches
InitTwice ==
    InitOn({1}, HeadVals, RegVals({1, 2}, {0}, {0}), Options({}))

\* two runs of the program, one after the other
SpecTwice == InitTwice /\ [][Next \/ Restart]_vars

(***************************************************************************)
(* Vocabulary of the properties.                                           *)
(***************************************************************************)
\* the lines this session added to rawhdd.log
SessionLog == SubSeq(log, logStart + 1, Len(log))

\* how many lines of the session are `line`
Count(line) == Cardinality({k \in 1..Len(SessionLog) : SessionLog[k] = line})

IsRead(op) == op \in {"read_ok", "read_fail"}

Reads(o) == Cardinality({k \in 1..Len(o) : IsRead(o[k])})

Resets(o) == Cardinality({k \in 1..Len(o) : o[k] = "reset"})

\* positions inside copy_sects
SectPcs == {"s_for", "s_read", "s_while", "s_reset", "s_reread",
            "s_log_retry", "s_log_first", "s_write"}

\* positions inside the copy loop of main
LoopPcs == {"for_track", "for_head", "copy_track", "track_write",
            "after_track", "sects_failed"} \cup SectPcs

\* bytes of the tracks that precede (c, h)
TrackOffset(c, h) == (c * heads + h) * sectors * SectorBytes

\* every retry has been used and the last read failed too
Exhausted == pc = "s_log_retry" /\ res # 0

(***************************************************************************)
(* C1: retry bound of the sector-by-sector fallback.                       *)
(***************************************************************************)
\* C1, as stated: a sector whose read fails on every attempt has been read
\* exactly 10 times, and each of these reads was immediately preceded by a
\* controller reset.
C1_TenReadsEachAfterReset ==
    Exhausted =>
        /\ Reads(ops) = MaxRetries
        /\ \A k \in 1..Len(ops) :
              IsRead(ops[k]) => k > 1 /\ ops[k - 1] = "reset"

\* C1, amended: a sector whose read fails on every attempt has been read
\* exactly 11 times, the first read followed by 10 retries; the first read is
\* not preceded by a reset, each of the 10 retries is immediately preceded by
\* one, and there are exactly 10 resets.
C1_FirstReadThenTenRetries ==
    Exhausted =>
        /\ Len(ops) = 2 * MaxRetries + 1
        /\ Reads(ops) = MaxRetries + 1
        /\ Resets(ops) = MaxRetries
        /\ \A k \in 1..Len(ops) :
              ops[k] = IF k % 2 = 1 THEN "read_fail" ELSE "reset"

\* C1, witness: a sector has used up its retries.
C1_Witness == Exhausted /\ retr = 0 /\ Reads(ops) > 1

SectorLines(kind, s) == Count(Line(kind, track, head, s))

\* C3: in the fallback every sector index already logged has exactly one line
\* for its (cylinder, head, sector), the others none; the line of the sector
\* just logged is ERR if and only if the first read and all retries failed
\* and OK if some read succeeded; a sector whose reads all failed has exactly
\* one ERR line and no OK line.
C3_OneLinePerSector ==
    pc \in SectPcs \cup {"sects_failed"} =>
        /\ \A s \in 1..sectors :
              SectorLines("OK", s) + SectorLines("ERR", s) =
                 IF s < i \/ (s = i /\ pc \in {"s_write", "sects_failed"})
                 THEN 1 ELSE 0
        /\ pc = "s_write" =>
              /\ SectorLines("ERR", i) = 1 <=>
                    (\A k \in 1..Len(ops) : ops[k] # "read_ok")
              /\ SectorLines("OK", i) = 1 <=>
                    (\E k \in 1..Len(ops) : ops[k] = "read_ok")
              /\ Reads(ops) >= 1
              /\ (Reads(ops) = MaxRetries + 1 /\ ops[Len(ops)] = "read_fail") =>
                    SectorLines("ERR", i) = 1 /\ SectorLines("OK", i) = 0

\* C3, witness: sector 2 has just been logged as ERR after sector 1 was
\* logged as OK.
C3_Witness ==
    /\ pc = "s_write" /\ i = 2
    /\ SectorLines("ERR", 2) = 1
    /\ SectorLines("OK", 1) = 1
    /\ Reads(ops) = MaxRetries + 1

AfterWriteFailure ==
    /\ pc \in {"after_track", "sects_failed", "fail", "done"}
    /\ Count(Banner("FINISHED")) = 0
    /\ result \in {"running", "WriteFailed", "AbortedByUser"}

C6_FailedQueryOpensNothing ==
    regs.ah # 0 => ~outOpened /\ ~dfhOpen /\ outBytes = 0

(***************************************************************************)
(* C7: the handles after a fatal end.                                      *)
(***************************************************************************)
\* C7: when the program has ended by a failed write or by Ctrl-Break, the
\* destination file and the log are closed.
C7_FatalEndClosesBoth ==
    (pc = "done" /\ result \in {"WriteFailed", "AbortedByUser"}) =>
        ~dfhOpen /\ lf = "closed"

\* C7, witness: the program has ended by a failed write in a session that
\* had opened both files and logged a sector.
C7_Witness ==
    /\ pc = "done" /\ result = "WriteFailed"
    /\ outOpened /\ ~dfhOpen /\ lf = "closed"
    /\ \E k \in 1..Len(SessionLog) : SessionLog[k].s > 0

(***************************************************************************)
(* C8: Ctrl-Break during the copy loop.                                    *)
(***************************************************************************)
\* C8: a Ctrl-Break at any position of the copy loop closes the output,
\* appends the marker to the log, closes the log and ends the program as
\* AbortedByUser, leaving the output as long as it was; once aborted the
\* marker is the last line of the log, the session has no finish banner,
\* both handles are closed and no further step is taken.
C8_AbortInLoop ==
    /\ [][(pc \in LoopPcs /\ CBreak) =>
            /\ pc' = "done" /\ result' = "AbortedByUser"
            /\ ~dfhOpen' /\ lf' = "closed"
            /\ log' = Append(log, Banner("ABORTED"))
            /\ outBytes' = outBytes]_vars
    /\ [](result = "AbortedByUser" =>
            /\ pc = "done"
            /\ log[Len(log)] = Banner("ABORTED")
            /\ Count(Banner("ABORTED")) = 1
            /\ Count(Banner("FINISHED")) = 0
            /\ ~dfhOpen /\ lf = "closed")
    /\ [][result # "AbortedByUser"]_vars

\* C8, witness: the program was aborted in the middle of a fallback, after
\* at least one whole track and one more sector had been written.
C8_Witness ==
    /\ result = "AbortedByUser"
    /\ fallbacks = 1 /\ ~wfailed
    /\ outBytes >= trackbytes + SectorBytes
    /\ outBytes % trackbytes # 0

(***************************************************************************)
(* C9: no imaging without a geometry.                                      *)
(***************************************************************************)
\* C9: when a geometry field is zero after the switches were applied, the
\* program ends as IncompleteGeometry with the output never opened, the log
\* never written and the handler never installed; at every position from
\* malloc on, the copy loop included, the three fields are non-zero and no
\* step changes them.
C9_NoImagingWithoutGeometry ==
    /\ []((pc \notin {"hddinfo", "overrides"} /\ NoGeometry(tracks, heads, sectors)) =>
            /\ pc = "done" /\ result = "IncompleteGeometry" /\ exitCode = 1
            /\ ~outOpened /\ ~dfhOpen /\ outBytes = 0
            /\ lf = "NULL" /\ Len(log) = logStart
            /\ ~handler)
    /\ [](result = "IncompleteGeometry" => NoGeometry(tracks, heads, sectors))
    /\ [](pc \in LoopPcs => tracks > 0 /\ heads > 0 /\ sectors > 0)
    /\ [][pc \notin {"hddinfo", "overrides"} => geom' = geom]_vars

\* C9, witness: the program has ended as IncompleteGeometry because a switch
\* set to zero a field the BIOS had reported as non-zero.
C9_Witness ==
    /\ pc = "done" /\ result = "IncompleteGeometry"
    /\ regs.ah = 0 /\ Int13Sectors(regs) > 0
    /\ opts.ss = 1 /\ sectors = 0
    /\ tracks > 0 /\ heads > 0

(***************************************************************************)
(* C10: the mismatch flag of hddinfo.                                      *)
(***************************************************************************)
\* the two cylinder counts differ by more than 1, in either direction
CylsDiffer(t, r) ==
    t.cyls - Int13Tracks(r) > 1 \/ Int13Tracks(r) - t.cyls > 1

\* C10: after a successful query the value hddinfo returned is 1 if and only
\* if the cylinder count of the table and the one derived from int 13h,8
\* differ by more than 1, in either direction, or the head counts differ;
\* the program goes on in both cases.
C10_MismatchIffDiffer ==
    (pc # "hddinfo" /\ regs.ah = 0) =>
        /\ rhi = 1 <=> (CylsDiffer(hdp, regs) \/ hdp.heads # Int13Heads(regs))
        /\ result # "GeometryUnavailable"

(***************************************************************************)
(* C11: the reconciled geometry.                                           *)
(***************************************************************************)
\* no geometry switch was given
NoSwitches == opts.ts = 0 /\ opts.hs = 0 /\ opts.ss = 0

\* C11: after a successful query the geometry hddinfo leaves is the cylinder
\* count of the table, the head count of the table and the low six bits of
\* CL, whether or not a mismatch was flagged; without switches this is the
\* geometry the program goes on with.
C11_TableWins ==
    (regs.ah = 0 /\ pc # "hddinfo" /\ (pc = "overrides" \/ NoSwitches)) =>
        /\ tracks = hdp.cyls
        /\ heads = hdp.heads
        /\ sectors = regs.cl % 64

\* C11, witness: the program goes on without switches with the table's
\* cylinders and heads although int 13h,8 reported other values for both,
\* with cylinder bit 8 set in CL, and the mismatch was flagged.
C11_Witness ==
    /\ pc = "malloc" /\ NoSwitches /\ regs.ah = 0 /\ rhi = 1
    /\ regs.cl >= 64
    /\ Int13Heads(regs) # hdp.heads /\ heads = hdp.heads
    /\ Int13Tracks(regs) # hdp.cyls /\ tracks = hdp.cyls
    /\ sectors = regs.cl - 64

(***************************************************************************)
(* C12: the switches take precedence, field by field.                      *)
(***************************************************************************)
\* C12: the step that applies the switches, taken after hddinfo, gives each
\* field the value of its switch when the switch was given and leaves it at
\* its reconciled value otherwise, whatever the other two switches are.
C12_OverridePerField ==
    [][pc = "overrides" =>
          /\ rhi = HddInfoRv(hdp, regs)
          /\ tracks' = IF opts.ts = 1 THEN opts.tracks ELSE tracks
          /\ heads' = IF opts.hs = 1 THEN opts.heads ELSE heads
          /\ sectors' = IF opts.ss = 1 THEN opts.sectors ELSE sectors]_vars

\* C12, witness: the sector switch alone was given; the sector count is the
\* switch's, not the BIOS's, and cylinders and heads are the table's.
C12_Witness ==
    /\ pc = "malloc" /\ regs.ah = 0
    /\ opts.ss = 1 /\ opts.ts = 0 /\ opts.hs = 0
    /\ sectors = opts.sectors /\ sectors # Int13Sectors(regs)
    /\ tracks = hdp.cyls /\ heads = hdp.heads

(***************************************************************************)
(* C13: the order of the units in the output.                              *)
(***************************************************************************)
\* rank of sector s of track (c, h) in the order cylinder, head, sector
UnitRank(c, h, s) == (c * heads + h) * sectors + (s - 1)

FirstSessionLog == SubSeq(log, Len(PriorLog) + 1, logStart)

\* start banner, lines of units, finish banner
CompletedSessionLog(l) ==
    /\ Len(l) >= 3
    /\ l[1] = Banner("STARTED") /\ l[2] = Banner("DRIVE")
    /\ l[Len(l)] = Banner("FINISHED")
    /\ \A k \in 3..(Len(l) - 1) : l[k].kind \in {"OK", "ERR"}

\* C14: no step of either run removes or changes a line of rawhdd.log; the
\* content found at the start of a run stays a prefix of the log; and when
\* the second of two Completed runs has ended the log is the earlier
\* content, then the start banner, the unit lines and the finish banner of
\* the first run, then those of the second.
C14_LogAppendOnly ==
    /\ [][/\ Len(log') >= Len(log)
          /\ SubSeq(log', 1, Len(log)) = log]_vars
    /\ [](/\ Len(log) >= logStart
          /\ logStart >= Len(PriorLog)
          /\ SubSeq(log, 1, Len(PriorLog)) = PriorLog)
    /\ []((result = "Completed" /\ logStart > Len(PriorLog)
             /\ log[logStart] = Banner("FINISHED")) =>
            /\ CompletedSessionLog(FirstSessionLog)
            /\ CompletedSessionLog(SessionLog)
            /\ log = PriorLog \o FirstSessionLog \o SessionLog)

\* C14, witness: the second of two Completed runs has ended; the first had
\* logged a sector as unreadable, the second logged whole tracks only.
C14_Witness ==
    /\ result = "Completed" /\ logStart > Len(PriorLog)
    /\ log[logStart] = Banner("FINISHED")
    /\ \E k \in 1..Len(FirstSessionLog) : FirstSessionLog[k].kind = "ERR"
    /\ \A k \in 1..Len(SessionLog) : SessionLog[k].kind # "ERR"
    /\ Len(SessionLog) >= 4

(***************************************************************************)
(* C15: read failures never end the session.                               *)
(***************************************************************************)
\* C15: from the start of the copy loop the run either ends Completed, or a
\* write has failed, or Ctrl-Break has arrived, whichever reads fail; no read
\* failure sets the session on the way to its failure exit; and a Completed
\* run has written all cylinders * heads tracks, has the finish banner as
\* the last line of the log and has closed both handles.
C15_ReadFailuresNeverFatal ==
    /\ (pc = "for_track" /\ track = 0) ~>
          \/ result = "Completed"
          \/ wfailed
          \/ result = "AbortedByUser" \/ pc = "undefined"
    /\ []((handler /\ ~wfailed) => pc # "fail" /\ result # "OpenFailed")
    /\ [](result = "Completed" =>
            /\ pc = "done" /\ exitCode = 0
            /\ outBytes = tracks * heads * trackbytes
            /\ log[Len(log)] = Banner("FINISHED")
            /\ Count(Banner("FINISHED")) = 1
            /\ ~dfhOpen /\ lf = "closed")

\* C15, witness: a run on a drive where every read failed, the bulk read of
\* its only track and every read of every sector, has ended Completed.
C15_Witness ==
    /\ result = "Completed" /\ tracks = 1 /\ heads = 1 /\ sectors >= 2
    /\ fallbacks = 1
    /\ Len(SessionLog) = sectors + 3
    /\ \A k \in 3..(Len(SessionLog) - 1) : SessionLog[k].kind = "ERR"

(***************************************************************************)
(* C16: the log lines of one track.                                        *)
(***************************************************************************)
\* "OK: c,h,*" lines of the session
AggregateLines(c, h) == Count(Line("OK", c, h, 0))

\* lines of the session about single sectors of track (c, h)
PerSectorLines(c, h) ==
    Cardinality({k \in 1..Len(SessionLog) :
                    /\ SessionLog[k].c = c /\ SessionLog[k].h = h
                    /\ SessionLog[k].s > 0})

\* the loop is done with track (c, h)
TrackDone(c, h) == c < track \/ (c = track /\ h < head /\ pc # "for_track")

\* the loop has not come to track (c, h)
TrackAhead(c, h) == c > track \/ (c = track /\ (h > head \/ pc = "for_track"))

\* C16: in the copy loop, a track the loop is done with has either one
\* aggregate line and no per-sector line, or no aggregate line and one
\* per-sector line for each of its sectors; the track being copied has no
\* line while its bulk read and write are under way and after either has
\* failed, no aggregate line in the fallback, and `sectors` per-sector lines
\* when the fallback is through; the step that follows a successful bulk
\* write appends the aggregate line and nothing else; and after a failed
\* write no unit is logged any more.
C16_LinesPerTrack ==
    /\ [](pc \in LoopPcs =>
            /\ \A c \in 0..(tracks - 1), h \in 0..(heads - 1) :
                  /\ (TrackDone(c, h) /\ ~wfailed) =>
                        \/ AggregateLines(c, h) = 1 /\ PerSectorLines(c, h) = 0
                        \/ AggregateLines(c, h) = 0 /\ PerSectorLines(c, h) = sectors
                  /\ TrackAhead(c, h) =>
                        AggregateLines(c, h) = 0 /\ PerSectorLines(c, h) = 0
            /\ pc \in {"copy_track", "track_write", "after_track"} =>
                  AggregateLines(track, head) = 0 /\ PerSectorLines(track, head) = 0
            /\ pc \in SectPcs \cup {"sects_failed"} =>
                  /\ AggregateLines(track, head) = 0
                  /\ PerSectorLines(track, head) <= sectors
            /\ (pc = "s_for" /\ i > sectors) =>
                  PerSectorLines(track, head) = sectors)
    /\ [][(pc = "after_track" /\ res = 0 /\ pc' = "for_head") =>
            log' = Append(log, Line("OK", track, head, 0))]_vars
    /\ [][wfailed => log' = log \/ log' = Append(log, Banner("ABORTED"))]_vars

\* C16, witness: the loop is done with a track copied in bulk and with a
\* track of several sectors copied sector by sector.
C16_Witness ==
    /\ pc = "for_track" /\ ~wfailed /\ sectors >= 2
    /\ \E c \in 0..(tracks - 1), h \in 0..(heads - 1) :
          TrackDone(c, h) /\ AggregateLines(c, h) = 1 /\ PerSectorLines(c, h) = 0
    /\ \E c \in 0..(tracks - 1), h \in 0..(heads - 1) :
          TrackDone(c, h) /\ AggregateLines(c, h) = 0 /\ PerSectorLines(c, h) = sectors

(***************************************************************************)
(* C17: resets and reads of one sector.                                    *)
(***************************************************************************)
\* positions of the bulk path
BulkPcs == {"copy_track", "track_write", "after_track"}

\* C17: among the BIOS calls made for one sector, a reset comes only right
\* after a failed read and the call after it, if the run goes on, is a read
\* of the same sector; a successful read is the last call for its sector;
\* there are at most 10 resets; a sector whose first read succeeded and the
\* bulk path have none.  A reset is issued at no other place than the retry
\* loop, with the last read failed and retries left.
C17_ResetsSequenced ==
    /\ [](\A k \in 1..Len(ops) :
            /\ ops[k] = "reset" =>
                  /\ k > 1 /\ ops[k - 1] = "read_fail"
                  /\ k < Len(ops) => IsRead(ops[k + 1])
            /\ ops[k] = "read_ok" => k = Len(ops))
    /\ [](Resets(ops) <= MaxRetries)
    /\ [](pc \in BulkPcs => Resets(ops) = 0)
    /\ []((Len(ops) > 0 /\ ops[1] = "read_ok") => Len(ops) = 1)
    /\ [][Resets(ops') > Resets(ops) =>
            /\ pc = "s_reset" /\ pc' = "s_reread"
            /\ res # 0 /\ retr > 0
            /\ ops' = Append(ops, "reset")
            /\ ops[Len(ops)] = "read_fail"]_vars
    /\ [][(pc = "s_reread" /\ pc' # "done") =>
            /\ ops[Len(ops)] = "reset"
            /\ Reads(ops') = Reads(ops) + 1 /\ Resets(ops') = Resets(ops)
            /\ track' = track /\ head' = head /\ i' = i]_vars
    /\ [][(Reads(ops') > Reads(ops) /\ pc # "s_read") =>
            pc = "s_reread" /\ ops[Len(ops)] = "reset"]_vars

\* C17, witness: a sector was read at the third attempt, after two failed
\* reads each followed by a reset, and is about to be written.
C17_Witness ==
    /\ pc = "s_write" /\ res = 0 /\ retr = MaxRetries - 2
    /\ ops = <<"read_fail", "reset", "read_fail", "reset", "read_ok">>

(***************************************************************************)
(* C18: the geometry decoded from the registers of int 13h,8.              *)
(***************************************************************************)
\* 1 + (((CL & 0xC0) << 2) | CH): one more than the largest cylinder number
CylindersOfRegs(r) == 1 + BitOr(ShiftLeft2(BitAnd(r.cl, 192)), r.ch)

\* C18: after a successful query the cylinder count hddinfo derived from CL
\* and CH for its cross-check is 1 + (((CL & 0xC0) << 2) | CH), for odd CH
\* too, so that with equal head counts the warning is given exactly when the
\* table has more than one cylinder more than that; the sector count is
\* CL & 0x3F and the head count 1 + DH.
C18_RegsDecoded ==
    (pc # "hddinfo" /\ regs.ah = 0) =>
        /\ Int13Tracks(regs) = CylindersOfRegs(regs)
        /\ Int13Heads(regs) = hdp.heads =>
              (rhi = 1 <=> ToInt(hdp.cyls - CylindersOfRegs(regs)) > 1)
        /\ Int13Sectors(regs) = regs.cl % 64
        /\ Int13Heads(regs) = 1 + regs.dh

(***************************************************************************)
(* C19: each handle is closed once and not used afterwards.                *)
(***************************************************************************)
\* the steps that call close(dfh) on a handle open() had returned
ClosesDfh == SectsWriteFailed \/ Finish \/ (Fail /\ dfh > 0) \/ CBreak

\* the steps that call write(dfh, ...)
WritesDfh == CopyTrackWrite \/ SectWrite

\* the steps that call fprintf(lf, ...) or fclose(lf)
UsesLf ==
    \/ LogTrackOk \/ SectLogRetry \/ SectLogFirst \/ FinishLog
    \/ (Fail /\ lf # "NULL") \/ CBreak

\* C19: on every path, the failed write of the bulk path and of the fallback,
\* the normal end and a Ctrl-Break at any point once the handler is
\* installed, every close and every write of the output finds it open, and
\* every fprintf and fclose of the log finds the log open.
C19_HandlesUsedWhileOpen ==
    [][/\ ClosesDfh => dfhOpen
       /\ WritesDfh => dfhOpen
       /\ UsesLf => lf = "open"]_vars

(***************************************************************************)
(* C20: the log never runs ahead of the output.                            *)
(***************************************************************************)
\* the lines of the session about units: whole tracks and single sectors
UnitLines == {k \in 1..Len(SessionLog) : SessionLog[k].kind \in {"OK", "ERR"}}

\* bytes of the unit line l stands for
LineBytes(l) == IF l.s = 0 THEN sectors * SectorBytes ELSE SectorBytes

\* size of the output once the unit of line l is written in full
LineEnd(l) ==
    IF l.s = 0 THEN UnitRank(l.c, l.h, sectors + 1) * SectorBytes
    ELSE UnitRank(l.c, l.h, l.s + 1) * SectorBytes

RECURSIVE LoggedBytes(_)
LoggedBytes(n) ==
    IF n = 0 THEN 0
    ELSE LoggedBytes(n - 1) +
         (IF n \in UnitLines THEN LineBytes(SessionLog[n]) ELSE 0)

\* C20: in every state, also after a failed write or a Ctrl-Break, the
\* output holds in full the unit of every track-OK, sector-OK and sector-ERR
\* line of the session, and the bytes these lines stand for are not more
\* than the bytes written.
C20_LoggedUnitsWritten ==
    /\ \A k \in UnitLines : LineEnd(SessionLog[k]) <= outBytes
    /\ LoggedBytes(Len(SessionLog)) <= outBytes

====
